---- MODULE Spec2Model ----
(***************************************************************************)
(* The asynchronous job pipeline of print3d: RealJobService                *)
(* (src/web/job_service.py), the job store (src/web/database.py), the      *)
(* mesh adapter's polling loop (src/mesh_gen.py) and the callers of        *)
(* generate_mesh_for_job in src/web/api.py (payment confirmations on the   *)
(* bounded executor, the admin regenerate route).                          *)
(*                                                                         *)
(* One step of a thread is one database transaction (or one queue          *)
(* operation) together with the local and backend work that precedes it.   *)
(***************************************************************************)
EXTENDS Integers, Sequences, FiniteSets, TLC

VARIABLES jobs,           \* the jobs table: job id -> row
          job_queue,      \* RealJobService.job_queue
          pending_put,    \* ids whose row is created, job_queue.put not yet done
          worker_thread,  \* RealJobService.worker_thread (0 = None)
          starters,       \* threads inside start_worker: "idle" / "checked"
          th,             \* per thread: position and locals of process_job /
                          \* generate_mesh_for_job
          executor_queue, \* work queue of the ThreadPoolExecutor
          image_calls,    \* job id -> number of image backend generations
          mesh_calls,     \* job id -> number of mesh tasks created
          proc_ret,       \* job id -> outcome of process_job for that id
          gen_ret,        \* job id -> outcome of the last generate_mesh_for_job
                          \* that ended, and the status it had loaded
          after_failure,  \* ids put on the queue after a process_job failed
          budget,         \* remaining submissions, triggers, starts, restarts
          clock,          \* datetime.utcnow(), in ticks
          reply,          \* the last store call of a request thread: its
                          \* arguments, its time and what it returned
          chain,          \* job id -> what followed the last
                          \* generate_mesh_for_job call for it, and for whom
          task_options    \* job id -> options of the last mesh task created

vars == <<jobs, job_queue, pending_put, worker_thread, starters, th,
          executor_queue, image_calls, mesh_calls, proc_ret, gen_ret,
          after_failure, budget, clock, reply, chain, task_options>>

(* The variables that only the request threads of the store change *)
store_vars == <<clock, reply>>

(* What the callers of generate_mesh_for_job and the mesh backend see *)
order_vars == <<chain, task_options>>

----------------------------------------------------------------------------
(* Bounds of the model *)

MaxJobs == 2

MaxTriggers == 2

MaxStarts == 2

MaxPolls == 2

MaxRestarts == 1

NumStarters == 2

NumAdmins == 1

(* Program constants *)

PoolSize == 3

BackendProgress == {0, 37, 100}

----------------------------------------------------------------------------
(* JobStatusEnum *)

PENDING == "pending"

GENERATING_IMAGE == "generating_image"

CONCEPT_READY == "concept_ready"

CONVERTING_3D == "converting_3d"

COMPLETED == "completed"

FAILED == "failed"

JobStatusEnum == {PENDING, GENERATING_IMAGE, CONCEPT_READY, CONVERTING_3D,
                  COMPLETED, FAILED}

(* Job ids: <<prefix, n>>, "job_..." from submit_job and "concept_..." from
   submit_concept_job; the uuid part makes every id fresh. *)
Prefixes == {"job", "concept"}

JobIdSpace == Prefixes \X (1..MaxJobs)

NoSuchId == <<"job", 0>>

(* Columns of JobModel that the model keeps. *)
JobColumns == {"description", "image_url",
               "status", "progress", "image_path", "mesh_path", "mesh_url",
               "error_message", "concept_only", "created_at", "updated_at"}

(* The value of a nullable text column that was never set *)
Null == "null"

(* The description that a submission carries *)
Description == "a small robot"

(* image_url of a job without an image, and f"/output/{image_filename}" *)
NoUrl == <<"", 0>>

image_url_of(path) == <<"/output/", path>>

JobModel(concept_only) ==
    [description |-> Description, image_url |-> NoUrl,
     status |-> PENDING, progress |-> 0, image_path |-> 0, mesh_path |-> 0,
     mesh_url |-> Null, error_message |-> Null, concept_only |-> concept_only,
     created_at |-> clock, updated_at |-> clock]

(* A create_job whose row never reaches the table *)
create_job_lost(js, id, concept_only) == js

(* database.create_job *)
create_job(js, id, concept_only) ==
    [i \in DOMAIN js \cup {id} |->
        IF i = id THEN JobModel(concept_only) ELSE js[i]]

(* database.get_job: the row, or None *)
None == [status |-> "none"]

(* A lookup that answers an unknown id with a default job *)
get_job_or_default(js, id) ==
    IF id \in DOMAIN js THEN js[id] ELSE JobModel(FALSE)

get_job(js, id) ==
    IF id \in DOMAIN js THEN js[id] ELSE None

(* An update that leaves updated_at alone *)
update_job_no_refresh(js, id, kw) ==
    IF id \in DOMAIN js
    THEN [js EXCEPT ![id] =
            [f \in DOMAIN js[id] |->
                IF f \in DOMAIN kw /\ f \in JobColumns THEN kw[f]
                ELSE js[id][f]]]
    ELSE js

(* database.update_job: a partial merge of the keyword arguments that are
   attributes of JobModel, then updated_at = utcnow(); unknown id -> no
   change. *)
update_job(js, id, kw) ==
    IF id \in DOMAIN js
    THEN [js EXCEPT ![id] =
            [f \in DOMAIN js[id] |->
                IF f = "updated_at" THEN clock
                ELSE IF f \in DOMAIN kw /\ f \in JobColumns THEN kw[f]
                ELSE js[id][f]]]
    ELSE js

----------------------------------------------------------------------------
(* Threads *)

Consumers == {<<"worker", i>> : i \in 1..NumStarters}

PoolWorkers == {<<"mesh_gen", i>> : i \in 1..PoolSize}

Admins == {<<"admin", i>> : i \in 1..NumAdmins}

Threads == Consumers \cup PoolWorkers \cup Admins

(* The orders that pay for a job: the payment provider that confirms them,
   the mesh style and the material the customer chose *)
MeshStyles == {"detailed", "stylized"}

Materials == {"plastic_white", "full_color"}

Orders == [by : {"stripe", "paypal"}, mesh_style : MeshStyles,
           material : Materials]

DefaultOrders ==
    {o \in Orders : o.mesh_style = "detailed" /\ o.material = "plastic_white"}

NoOrder == [by |-> "none", mesh_style |-> "detailed",
            material |-> "plastic_white"]

Idle == [pc |-> "idle", job |-> NoSuchId, concept_only |-> FALSE, polls |-> 0,
         last_progress |-> -1, exc |-> "", st0 |-> "none", order |-> NoOrder]

(* A thread entering process_job / generate_mesh_for_job for id. *)
Enter(pc, id) == [Idle EXCEPT !.pc = pc, !.job = id]

(* A thread that has left its call and stands at pc. *)
Leave(pc) == [Idle EXCEPT !.pc = pc]

InProcessJob(t) ==
    th[t].pc \in {"p_load", "p_image", "p_convert", "p_submit", "p_poll",
                  "p_raise", "p_finish"}

InGenerateMesh(t) ==
    th[t].pc \in {"g_load", "g_submit", "g_poll", "g_raise", "g_finish"}

(* What the environment does in one run: the pipeline under load (several
   submissions, one start_worker call, no payment), the deferred trigger
   (one submission, several payment confirmations or admin calls for orders
   of the default style and material), start_worker called again while jobs
   are submitted, and one payment confirmation or admin call for an order of
   any style and material. *)
Scenarios ==
    { [jobs |-> MaxJobs, triggers |-> 0, starts |-> 1, restarts |-> 0,
       orders |-> {}],
      [jobs |-> 1, triggers |-> MaxTriggers, starts |-> 1, restarts |-> 0,
       orders |-> DefaultOrders],
      [jobs |-> MaxJobs, triggers |-> 0, starts |-> MaxStarts, restarts |-> 0,
       orders |-> {}],
      [jobs |-> 1, triggers |-> 1, starts |-> 1, restarts |-> 0,
       orders |-> Orders] }

----------------------------------------------------------------------------
(* No generate_mesh_for_job call has ended for the job yet. *)
NoChain == [by |-> "none", success |-> FALSE, done |-> {}]

(* No mesh task was created for the job yet. *)
NoOptions == [model_type |-> "none", target_polycount |-> 0,
              enable_pbr |-> FALSE]

(* No call of a request thread has returned yet. *)
NoReply ==
    [op |-> "none", id |-> NoSuchId, kw |-> <<>>, at |-> 0, ret |-> None]

InitState(b) ==
    /\ jobs = [i \in {} |-> None]
    /\ job_queue = <<>>
    /\ pending_put = {}
    /\ worker_thread = 0
    /\ starters = [s \in 1..NumStarters |-> "idle"]
    /\ th = [t \in Threads |-> [Idle EXCEPT !.pc =
                IF t \in Consumers THEN "unstarted" ELSE "idle"]]
    /\ executor_queue = <<>>
    /\ image_calls = [i \in JobIdSpace |-> 0]
    /\ mesh_calls = [i \in JobIdSpace |-> 0]
    /\ proc_ret = [i \in JobIdSpace |-> "none"]
    /\ gen_ret = [i \in JobIdSpace \cup {NoSuchId} |->
                    [ret |-> "none", st0 |-> "none"]]
    /\ after_failure = {}
    /\ budget = b
    /\ clock = 0
    /\ reply = NoReply
    /\ chain = [i \in JobIdSpace \cup {NoSuchId} |-> NoChain]
    /\ task_options = [i \in JobIdSpace |-> NoOptions]

Init == \E b \in Scenarios : InitState(b)

----------------------------------------------------------------------------
(* submit_job / submit_concept_job: create the row, then put the id on the
   queue. When the session of create_job raises, the exception leaves the
   method before the put. *)

NextId(prefix) == <<prefix, Cardinality(DOMAIN jobs) + 1>>

submit_job ==
    /\ budget.jobs > 0
    /\ LET id == NextId("job") IN
        \/ /\ jobs' = create_job(jobs, id, FALSE)
           /\ pending_put' = pending_put \cup {id}
        \/ UNCHANGED <<jobs, pending_put>>
    /\ budget' = [budget EXCEPT !.jobs = @ - 1]
    /\ UNCHANGED <<job_queue, worker_thread, starters, th, executor_queue,
                   image_calls, mesh_calls, proc_ret, gen_ret, after_failure>>
    /\ UNCHANGED store_vars
    /\ UNCHANGED order_vars

submit_concept_job ==
    /\ budget.jobs > 0
    /\ LET id == NextId("concept") IN
        \/ /\ jobs' = create_job(jobs, id, TRUE)
           /\ pending_put' = pending_put \cup {id}
        \/ UNCHANGED <<jobs, pending_put>>
    /\ budget' = [budget EXCEPT !.jobs = @ - 1]
    /\ UNCHANGED <<job_queue, worker_thread, starters, th, executor_queue,
                   image_calls, mesh_calls, proc_ret, gen_ret, after_failure>>
    /\ UNCHANGED store_vars
    /\ UNCHANGED order_vars

(* A queue that hands out the newest item first (queue.LifoQueue) *)
LifoQueue_put(q, item) == <<item>> \o q

(* queue.Queue.put: the item goes to the back; get takes the front *)
Queue_put(q, item) == Append(q, item)

job_queue_put(id) ==
    /\ id \in pending_put
    /\ job_queue' = Queue_put(job_queue, id)
    /\ pending_put' = pending_put \ {id}
    /\ after_failure' = IF \E a \in JobIdSpace : proc_ret[a] = "False"
                        THEN after_failure \cup {id} ELSE after_failure
    /\ UNCHANGED <<jobs, worker_thread, starters, th, executor_queue,
                   image_calls, mesh_calls, proc_ret, gen_ret, budget>>
    /\ UNCHANGED store_vars
    /\ UNCHANGED order_vars

----------------------------------------------------------------------------
(* start_worker: the check of worker_thread and the creation of the thread
   are two steps of the calling thread. *)

is_alive(w) == w # 0 /\ th[<<"worker", w>>].pc \notin {"unstarted", "w_dead"}

start_worker_check(s) ==
    /\ starters[s] = "idle"
    /\ budget.starts > 0
    /\ budget' = [budget EXCEPT !.starts = @ - 1]
    /\ starters' = [starters EXCEPT ![s] =
            IF is_alive(worker_thread) THEN "idle" ELSE "checked"]
    /\ UNCHANGED <<jobs, job_queue, pending_put, worker_thread, th,
                   executor_queue, image_calls, mesh_calls, proc_ret,
                   gen_ret, after_failure>>
    /\ UNCHANGED store_vars
    /\ UNCHANGED order_vars

start_worker_start(s) ==
    /\ starters[s] = "checked"
    /\ worker_thread' = s
    /\ th' = [th EXCEPT ![<<"worker", s>>].pc = "w_get"]
    /\ starters' = [starters EXCEPT ![s] = "idle"]
    /\ UNCHANGED <<jobs, job_queue, pending_put, executor_queue, image_calls,
                   mesh_calls, proc_ret, gen_ret, after_failure, budget>>
    /\ UNCHANGED store_vars
    /\ UNCHANGED order_vars

----------------------------------------------------------------------------
(* worker_loop *)

worker_loop_get(w) ==
    /\ th[w].pc = "w_get"
    /\ job_queue # <<>>
    /\ th' = [th EXCEPT ![w] = Enter("p_load", Head(job_queue))]
    /\ job_queue' = Tail(job_queue)
    /\ UNCHANGED <<jobs, pending_put, worker_thread, starters, executor_queue,
                   image_calls, mesh_calls, proc_ret, gen_ret, after_failure,
                   budget>>
    /\ UNCHANGED store_vars
    /\ UNCHANGED order_vars

(* A loop that ends when process_job reports a failure *)
worker_loop_next_breaks(outcome) ==
    IF outcome = "True" THEN "w_get" ELSE "w_dead"

(* Where the loop goes once process_job has ended with the given outcome:
   a return value, or an exception caught by "except Exception". *)
worker_loop_next(outcome) == "w_get"

----------------------------------------------------------------------------
(* The backends, as the pipeline sees them *)

(* str(e) of an exception that carries no text, such as a timeout of the
   HTTP client *)
EmptyText == ""

(* ImageGenerator.generate raises, or writes the image file. *)
ImageErrors == {"No image data in Gemini response"}

(* MESH_STYLES: the preset of a style; an unknown key gets "detailed". *)
MESH_STYLES(style_key) ==
    IF style_key = "stylized"
    THEN [meshy_model_type |-> "lowpoly", recommended_polycount |-> 5000]
    ELSE [meshy_model_type |-> "standard", recommended_polycount |-> 100000]

(* materials.py: only "full_color" supports full colour. *)
supports_full_color(material_key) == material_key = "full_color"

(* MeshGenerationOptions.from_user_selection *)
from_user_selection(style_key, material_key) ==
    [model_type |-> MESH_STYLES(style_key).meshy_model_type,
     target_polycount |-> MESH_STYLES(style_key).recommended_polycount,
     enable_pbr |-> supports_full_color(material_key)]

(* "options = options or MeshOptions()": no model type, no polycount, PBR. *)
MeshOptions == [model_type |-> "default", target_polycount |-> 0,
                enable_pbr |-> TRUE]

(* The options of the task that from_image creates: generate_mesh_for_job
   computes mesh_options and calls from_image without them. *)
create_task_options(mesh_options) == MeshOptions

(* open(image_path) and MeshGenerator.create_task *)
SubmitErrors == {"No such file or directory", "Failed to create task"}

(* MeshGenerator.get_task_status: an HTTP failure, or a status and a
   progress percentage. *)
PollErrors == {"Failed to get task status", EmptyText}

(* TaskStatus, as get_task_status parses it: an unrecognised status string
   becomes PENDING. *)
TaskStatus == {"PENDING", "IN_PROGRESS", "SUCCEEDED", "FAILED", "EXPIRED"}

(* MeshResult.is_complete / MeshResult.is_failed *)
is_complete(st) == st = "SUCCEEDED"

is_failed(st) == st \in {"FAILED", "EXPIRED"}

(* The sets of formats for which a finished task has a URL. *)
ModelUrls == {{"glb", "obj"}, {"glb"}, {"obj"}, {}}

RenameErrors == {"rename failed"}

(* MeshResult.glb_url or MeshResult.obj_url *)
mesh_url_of(urls) ==
    IF "glb" \in urls THEN "glb" ELSE IF "obj" \in urls THEN "obj" ELSE Null

(* on_mesh_progress of process_job: 50 + int(progress * 0.4) *)
on_mesh_progress_process(progress) == 50 + ((progress * 4) \div 10)

(* on_mesh_progress of generate_mesh_for_job: 50 + int(progress * 0.5) *)
on_mesh_progress_generate(progress) == 50 + ((progress * 5) \div 10)

----------------------------------------------------------------------------
(* process_job, run by a consumer thread w *)

(* An except clause that records the message but not the status *)
process_job_except_no_status(w, msg) ==
    /\ jobs' = update_job(jobs, th[w].job, [error_message |-> msg])
    /\ th' = [th EXCEPT ![w] = Leave(worker_loop_next("False"))]
    /\ proc_ret' = [proc_ret EXCEPT ![th[w].job] = "False"]
    /\ UNCHANGED gen_ret

(* The except clause: persist FAILED and the message, return False. *)
process_job_except(w, msg) ==
    /\ jobs' = update_job(jobs, th[w].job,
                          [status |-> FAILED, error_message |-> msg])
    /\ th' = [th EXCEPT ![w] = Leave(worker_loop_next("False"))]
    /\ proc_ret' = [proc_ret EXCEPT ![th[w].job] = "False"]
    /\ UNCHANGED gen_ret

(* An except clause of generate_mesh_for_job that only logs and returns
   False *)
generate_mesh_except_log_only(t, msg) ==
    /\ th' = [th EXCEPT ![t] = Leave("idle")]
    /\ gen_ret' = [gen_ret EXCEPT ![th[t].job] =
                        [ret |-> "False", st0 |-> th[t].st0]]
    /\ UNCHANGED <<jobs, proc_ret>>

(* The except clause: persist FAILED and the message, return False. *)
generate_mesh_except(t, msg) ==
    /\ jobs' = update_job(jobs, th[t].job,
                          [status |-> FAILED, error_message |-> msg])
    /\ th' = [th EXCEPT ![t] = Leave("idle")]
    /\ gen_ret' = [gen_ret EXCEPT ![th[t].job] =
                        [ret |-> "False", st0 |-> th[t].st0]]
    /\ UNCHANGED proc_ret

(* One round of MeshGenerator.wait_for_completion: poll the task, report a
   changed progress through the callback, then decide.  The loop gives up
   with TimeoutError once the configured wait is exceeded, at the latest
   after MaxPolls rounds. *)
TaskFailedMsg == "Task failed with status: FAILED"

TaskExpiredMsg == "Task failed with status: EXPIRED"

TimeoutMsg == "Task did not complete within timeout"

(* A polling loop without the timeout check *)
timeout_never_exceeded(polls) == FALSE

(* "elapsed > timeout" after the poll that follows polls sleeps of
   poll_interval seconds: true at the latest in round MaxPolls *)
timeout_exceeded(polls) == polls + 1 >= MaxPolls

(* The on_progress callback and the except clause of the caller, process_job
   ("p") or generate_mesh_for_job ("g") *)
on_progress(prefix, progress) ==
    IF prefix = "p" THEN on_mesh_progress_process(progress)
    ELSE on_mesh_progress_generate(progress)

except_clause(t, prefix, msg) ==
    IF prefix = "p" THEN process_job_except(t, msg)
    ELSE generate_mesh_except(t, msg)

wait_for_completion(t, prefix) ==
    \/ \E msg \in PollErrors : except_clause(t, prefix, msg)
    \/ \E st \in TaskStatus, progress \in BackendProgress, timed_out \in BOOLEAN :
         /\ timeout_exceeded(th[t].polls) => timed_out
         /\ jobs' = IF progress # th[t].last_progress
                    THEN update_job(jobs, th[t].job,
                                    [progress |-> on_progress(prefix, progress)])
                    ELSE jobs
         /\ th' = [th EXCEPT
                ![t].last_progress = progress,
                ![t].polls = IF is_complete(st) \/ is_failed(st) \/ timed_out
                             THEN 0
                             ELSE IF @ < MaxPolls THEN @ + 1 ELSE @,
                ![t].exc = CASE is_complete(st) -> ""
                             [] st = "FAILED" -> TaskFailedMsg
                             [] st = "EXPIRED" -> TaskExpiredMsg
                             [] timed_out -> TimeoutMsg
                             [] OTHER -> "",
                ![t].pc = CASE is_complete(st) -> prefix \o "_finish"
                            [] is_failed(st) -> prefix \o "_raise"
                            [] timed_out -> prefix \o "_raise"
                            [] OTHER -> prefix \o "_poll"]
         /\ UNCHANGED <<proc_ret, gen_ret>>

(* self.image_gen.generate(...) succeeded: one more generation for the job *)
image_generated(calls, id) == [calls EXCEPT ![id] = @ + 1]

(* The same update with image_path forgotten *)
process_job_image_update_no_path(js, id, concept_only, path) ==
    update_job(js, id,
        [progress |-> IF ~concept_only THEN 40 ELSE 100,
         status |-> IF ~concept_only THEN GENERATING_IMAGE ELSE CONCEPT_READY])

(* The same update with the concept-only case forgotten *)
process_job_image_update_no_halt(js, id, concept_only, path) ==
    update_job(js, id,
        [image_path |-> path, image_url |-> image_url_of(path),
         progress |-> 40, status |-> GENERATING_IMAGE])

(* The update after image generation: image_path, progress and status *)
process_job_image_update(js, id, concept_only, path) ==
    update_job(js, id,
        [image_path |-> path, image_url |-> image_url_of(path),
         progress |-> IF ~concept_only THEN 40 ELSE 100,
         status |-> IF ~concept_only THEN GENERATING_IMAGE ELSE CONCEPT_READY])

(* "concept_only = getattr(job, 'concept_only', False) or
    job_id.startswith('concept_')" *)
process_job_concept_only(job, job_id) ==
    job.concept_only \/ job_id[1] = "concept"

(* Load the job, decide concept_only, move to GENERATING_IMAGE. *)
process_job_load(w) ==
    /\ th[w].pc = "p_load"
    /\ LET id == th[w].job
           job == get_job(jobs, id) IN
        IF job = None
        THEN /\ th' = [th EXCEPT ![w] = Leave(worker_loop_next("False"))]
             /\ proc_ret' = [proc_ret EXCEPT ![id] = "False"]
             /\ UNCHANGED <<jobs, gen_ret>>
        ELSE /\ jobs' = update_job(jobs, id,
                            [status |-> GENERATING_IMAGE, progress |-> 20])
             /\ th' = [th EXCEPT ![w].pc = "p_image",
                                 ![w].concept_only =
                                     process_job_concept_only(job, id),
                                 ![w].st0 = job.status]
             /\ UNCHANGED <<proc_ret, gen_ret>>
    /\ UNCHANGED <<job_queue, pending_put, worker_thread, starters,
                   executor_queue, image_calls, mesh_calls, after_failure,
                   budget>>
    /\ UNCHANGED store_vars
    /\ UNCHANGED order_vars

(* Generate the image, record its path; a concept-only pass ends here. *)
process_job_image(w) ==
    /\ th[w].pc = "p_image"
    /\ LET id == th[w].job IN
        \/ \E msg \in ImageErrors :
             /\ process_job_except(w, msg)
             /\ UNCHANGED image_calls
        \/ /\ image_calls' = image_generated(image_calls, id)
           /\ jobs' = process_job_image_update(jobs, id, th[w].concept_only,
                                               image_calls'[id])
           /\ IF th[w].concept_only
              THEN /\ th' = [th EXCEPT ![w] = Leave(worker_loop_next("True"))]
                   /\ proc_ret' = [proc_ret EXCEPT ![id] = "True"]
              ELSE /\ th' = [th EXCEPT ![w].pc = "p_convert"]
                   /\ UNCHANGED proc_ret
           /\ UNCHANGED gen_ret
    /\ UNCHANGED <<job_queue, pending_put, worker_thread, starters,
                   executor_queue, mesh_calls, after_failure, budget>>
    /\ UNCHANGED store_vars
    /\ UNCHANGED order_vars

(* Step 2: move to CONVERTING_3D. *)
process_job_convert(w) ==
    /\ th[w].pc = "p_convert"
    /\ jobs' = update_job(jobs, th[w].job,
                          [status |-> CONVERTING_3D, progress |-> 50])
    /\ th' = [th EXCEPT ![w].pc = "p_submit"]
    /\ UNCHANGED <<job_queue, pending_put, worker_thread, starters,
                   executor_queue, image_calls, mesh_calls, proc_ret,
                   gen_ret, after_failure, budget>>
    /\ UNCHANGED store_vars
    /\ UNCHANGED order_vars

(* Read the image file and create the mesh task. *)
process_job_submit(w) ==
    /\ th[w].pc = "p_submit"
    /\ \/ \E msg \in SubmitErrors :
             /\ process_job_except(w, msg)
             /\ UNCHANGED mesh_calls
             /\ UNCHANGED task_options
       \/ /\ mesh_calls' = [mesh_calls EXCEPT ![th[w].job] = @ + 1]
          /\ task_options' = [task_options EXCEPT ![th[w].job] = MeshOptions]
          /\ th' = [th EXCEPT ![w].pc = "p_poll"]
          /\ UNCHANGED <<jobs, proc_ret, gen_ret>>
    /\ UNCHANGED <<job_queue, pending_put, worker_thread, starters,
                   executor_queue, image_calls, after_failure, budget>>
    /\ UNCHANGED store_vars
    /\ UNCHANGED chain

process_job_poll(w) ==
    /\ th[w].pc = "p_poll"
    /\ wait_for_completion(w, "p")
    /\ UNCHANGED <<job_queue, pending_put, worker_thread, starters,
                   executor_queue, image_calls, mesh_calls, after_failure,
                   budget>>
    /\ UNCHANGED store_vars
    /\ UNCHANGED order_vars

(* The polling loop raised: the except clause of process_job runs. *)
process_job_raise(w) ==
    /\ th[w].pc = "p_raise"
    /\ process_job_except(w, th[w].exc)
    /\ UNCHANGED <<job_queue, pending_put, worker_thread, starters,
                   executor_queue, image_calls, mesh_calls, after_failure,
                   budget>>
    /\ UNCHANGED store_vars
    /\ UNCHANGED order_vars

(* MeshGenerator.download of the requested format: the ValueError names the
   formats the backend did return. *)
FormatMsg(urls) ==
    CASE urls = {} -> "Format 'glb' not available. Available: []"
      [] urls = {"obj"} -> "Format 'glb' not available. Available: ['obj']"
      [] OTHER -> "Format 'glb' not available. Available: [...]"

FormatMsgs == {FormatMsg(urls) : urls \in {u \in ModelUrls : "glb" \notin u}}

(* The final update without the mesh path *)
mesh_completed_no_path(js, id, path, urls) ==
    update_job(js, id,
        [mesh_url |-> mesh_url_of(urls), mesh_urls_json |-> urls,
         progress |-> 100, status |-> COMPLETED])

(* A final update that also resets the image's URL *)
mesh_completed_drops_image(js, id, path, urls) ==
    update_job(js, id,
        [mesh_path |-> path, mesh_url |-> mesh_url_of(urls),
         mesh_urls_json |-> urls, progress |-> 100, status |-> COMPLETED,
         image_url |-> NoUrl])

(* The final update of a successful mesh generation *)
mesh_completed(js, id, path, urls) ==
    update_job(js, id,
        [mesh_path |-> path, mesh_url |-> mesh_url_of(urls),
         mesh_urls_json |-> urls, progress |-> 100, status |-> COMPLETED])

(* Download glb, rename the file, persist COMPLETED, return True. *)
process_job_finish(w) ==
    /\ th[w].pc = "p_finish"
    /\ LET id == th[w].job IN
       \E urls \in ModelUrls :
        IF "glb" \notin urls
        THEN process_job_except(w, FormatMsg(urls))
        ELSE \/ \E msg \in RenameErrors : process_job_except(w, msg)
             \/ /\ jobs' = mesh_completed(jobs, id, mesh_calls[id], urls)
                /\ th' = [th EXCEPT ![w] = Leave(worker_loop_next("True"))]
                /\ proc_ret' = [proc_ret EXCEPT ![id] = "True"]
                /\ UNCHANGED gen_ret
    /\ UNCHANGED <<job_queue, pending_put, worker_thread, starters,
                   executor_queue, image_calls, mesh_calls, after_failure,
                   budget>>
    /\ UNCHANGED store_vars
    /\ UNCHANGED order_vars

----------------------------------------------------------------------------
(* generate_mesh_for_job, run by a pool worker or by the admin request
   thread t *)

(* The check of image_path left out *)
has_image_unchecked(job) == TRUE

(* What the caller of generate_mesh_for_job does with its result: the Stripe
   task sends the model-ready email and submits the order to Shapeways, the
   PayPal task sends the email, the admin route submits the order; on a
   false result every caller only logs. *)
generate_and_submit(order, success) ==
    [by |-> order.by, success |-> success,
     done |-> IF ~success THEN {}
              ELSE IF order.by = "stripe" THEN {"email", "shapeways"}
              ELSE IF order.by = "paypal" THEN {"email"}
              ELSE {"shapeways"}]

(* The caller's continuation runs in the step in which the call returns. *)
generate_and_submit_after(t) ==
    chain' = IF th'[t].pc = "idle"
             THEN [chain EXCEPT ![th[t].job] =
                     generate_and_submit(th[t].order,
                                         gen_ret'[th[t].job].ret = "True")]
             ELSE chain

(* "if not job.image_path" *)
has_image(job) == job.image_path # 0

(* Load the job; without a row or without an image return False, otherwise
   move to CONVERTING_3D. *)
generate_mesh_load(t) ==
    /\ th[t].pc = "g_load"
    /\ LET id == th[t].job
           job == get_job(jobs, id) IN
        IF job = None
        THEN /\ th' = [th EXCEPT ![t] = Leave("idle")]
             /\ gen_ret' = [gen_ret EXCEPT ![id] =
                                [ret |-> "not_found", st0 |-> "none"]]
             /\ UNCHANGED jobs
        ELSE IF ~has_image(job)
        THEN /\ th' = [th EXCEPT ![t] = Leave("idle")]
             /\ gen_ret' = [gen_ret EXCEPT ![id] =
                                [ret |-> "no_image", st0 |-> job.status]]
             /\ UNCHANGED jobs
        ELSE /\ jobs' = update_job(jobs, id,
                            [status |-> CONVERTING_3D, progress |-> 50])
             /\ th' = [th EXCEPT ![t].pc = "g_submit", ![t].st0 = job.status]
             /\ UNCHANGED gen_ret
    /\ UNCHANGED <<job_queue, pending_put, worker_thread, starters,
                   executor_queue, image_calls, mesh_calls, proc_ret,
                   after_failure, budget>>
    /\ UNCHANGED store_vars
    /\ generate_and_submit_after(t)
    /\ UNCHANGED task_options

(* Read the stored image file and create the mesh task. *)
generate_mesh_submit(t) ==
    /\ th[t].pc = "g_submit"
    /\ \/ \E msg \in SubmitErrors :
             /\ generate_mesh_except(t, msg)
             /\ UNCHANGED mesh_calls
             /\ UNCHANGED task_options
       \/ /\ mesh_calls' = [mesh_calls EXCEPT ![th[t].job] = @ + 1]
          /\ task_options' =
                 [task_options EXCEPT ![th[t].job] =
                     create_task_options(
                         from_user_selection(th[t].order.mesh_style,
                                             th[t].order.material))]
          /\ th' = [th EXCEPT ![t].pc = "g_poll"]
          /\ UNCHANGED <<jobs, proc_ret, gen_ret>>
    /\ UNCHANGED <<job_queue, pending_put, worker_thread, starters,
                   executor_queue, image_calls, after_failure, budget>>
    /\ UNCHANGED store_vars
    /\ generate_and_submit_after(t)

generate_mesh_poll(t) ==
    /\ th[t].pc = "g_poll"
    /\ wait_for_completion(t, "g")
    /\ UNCHANGED <<job_queue, pending_put, worker_thread, starters,
                   executor_queue, image_calls, mesh_calls, after_failure,
                   budget>>
    /\ UNCHANGED store_vars
    /\ generate_and_submit_after(t)
    /\ UNCHANGED task_options

(* The polling loop raised: the except clause runs. *)
generate_mesh_raise(t) ==
    /\ th[t].pc = "g_raise"
    /\ generate_mesh_except(t, th[t].exc)
    /\ UNCHANGED <<job_queue, pending_put, worker_thread, starters,
                   executor_queue, image_calls, mesh_calls, after_failure,
                   budget>>
    /\ UNCHANGED store_vars
    /\ generate_and_submit_after(t)
    /\ UNCHANGED task_options

(* Download glb, rename the file, persist COMPLETED, return True. *)
generate_mesh_finish(t) ==
    /\ th[t].pc = "g_finish"
    /\ LET id == th[t].job IN
       \E urls \in ModelUrls :
        IF "glb" \notin urls
        THEN generate_mesh_except(t, FormatMsg(urls))
        ELSE \/ \E msg \in RenameErrors : generate_mesh_except(t, msg)
             \/ /\ jobs' = mesh_completed(jobs, id, mesh_calls[id], urls)
                /\ th' = [th EXCEPT ![t] = Leave("idle")]
                /\ gen_ret' = [gen_ret EXCEPT ![id] =
                                    [ret |-> "True", st0 |-> th[t].st0]]
                /\ UNCHANGED proc_ret
    /\ UNCHANGED <<job_queue, pending_put, worker_thread, starters,
                   executor_queue, image_calls, mesh_calls, after_failure,
                   budget>>
    /\ UNCHANGED store_vars
    /\ generate_and_submit_after(t)
    /\ UNCHANGED task_options

----------------------------------------------------------------------------
(* The callers of generate_mesh_for_job in api.py.  An order can name any
   job id: create_checkout does not look at the job. *)

OrderJobIds == DOMAIN jobs \cup {NoSuchId}

(* "job.get('concept_only', False) or job.get('status') == 'concept_ready'" *)
is_concept_only(job) == job.concept_only \/ job.status = CONCEPT_READY

(* A payment confirmation for an order of job id: when the job exists and
   is_concept_only, generate_and_submit goes to the executor. *)
payment_confirmed(id, provider) ==
    /\ id \in OrderJobIds
    /\ budget.triggers > 0
    /\ budget' = [budget EXCEPT !.triggers = @ - 1]
    /\ LET job == get_job(jobs, id) IN
        \E o \in budget.orders :
            /\ o.by = provider
            /\ executor_queue' =
                    IF job # None /\ is_concept_only(job)
                    THEN Append(executor_queue, [job |-> id, order |-> o])
                    ELSE executor_queue
    /\ UNCHANGED <<jobs, job_queue, pending_put, worker_thread, starters, th,
                   image_calls, mesh_calls, proc_ret, gen_ret, after_failure>>
    /\ UNCHANGED store_vars
    /\ UNCHANGED order_vars

stripe_webhook(id) == payment_confirmed(id, "stripe")

execute_paypal_payment(id) == payment_confirmed(id, "paypal")

(* ThreadPoolExecutor(max_workers=3): an idle pool thread takes the oldest
   queued task; the pool threads are interchangeable, the lowest idle one
   takes it. *)
executor_run(p) ==
    /\ executor_queue # <<>>
    /\ th[p].pc = "idle"
    /\ \A q \in PoolWorkers : q[2] < p[2] => th[q].pc # "idle"
    /\ th' = [th EXCEPT ![p] =
                [Enter("g_load", Head(executor_queue).job)
                    EXCEPT !.order = Head(executor_queue).order]]
    /\ executor_queue' = Tail(executor_queue)
    /\ UNCHANGED <<jobs, job_queue, pending_put, worker_thread, starters,
                   image_calls, mesh_calls, proc_ret, gen_ret, after_failure,
                   budget>>
    /\ UNCHANGED store_vars
    /\ UNCHANGED order_vars

(* admin_regenerate_3d calls generate_mesh_for_job in the request thread. *)
admin_regenerate_3d(a, id) ==
    /\ id \in OrderJobIds
    /\ budget.triggers > 0
    /\ th[a].pc = "idle"
    /\ budget' = [budget EXCEPT !.triggers = @ - 1]
    /\ \E o \in budget.orders :
            th' = [th EXCEPT ![a] =
                    [Enter("g_load", id)
                        EXCEPT !.order = [o EXCEPT !.by = "admin"]]]
    /\ UNCHANGED <<jobs, job_queue, pending_put, worker_thread, starters,
                   executor_queue, image_calls, mesh_calls, proc_ret,
                   gen_ret, after_failure>>
    /\ UNCHANGED store_vars
    /\ UNCHANGED order_vars

----------------------------------------------------------------------------
(* The process is stopped and started again: the table survives, the queues
   and the threads do not.  __init__ runs _load_pending_jobs, which re-queues
   nothing. *)
_load_pending_jobs(js) == <<>>

Restart ==
    /\ budget.restarts > 0
    /\ budget' = [budget EXCEPT !.restarts = @ - 1, !.starts = 1]
    /\ job_queue' = _load_pending_jobs(jobs)
    /\ pending_put' = {}
    /\ worker_thread' = 0
    /\ starters' = [s \in 1..NumStarters |-> "idle"]
    /\ th' = [t \in Threads |-> [Idle EXCEPT !.pc =
                IF t \in Consumers THEN "unstarted" ELSE "idle"]]
    /\ executor_queue' = <<>>
    /\ UNCHANGED <<jobs, image_calls, mesh_calls, proc_ret, gen_ret, after_failure>>
    /\ UNCHANGED store_vars
    /\ UNCHANGED order_vars

----------------------------------------------------------------------------
(* The primary pipeline: submissions, start_worker, the consumer loop *)
PipelineNext ==
    \/ submit_job
    \/ submit_concept_job
    \/ \E id \in JobIdSpace : job_queue_put(id)
    \/ \E s \in 1..NumStarters : start_worker_check(s)
    \/ \E s \in 1..NumStarters : start_worker_start(s)
    \/ \E w \in Consumers : worker_loop_get(w)
    \/ \E w \in Consumers : process_job_load(w)
    \/ \E w \in Consumers : process_job_image(w)
    \/ \E w \in Consumers : process_job_convert(w)
    \/ \E w \in Consumers : process_job_submit(w)
    \/ \E w \in Consumers : process_job_poll(w)
    \/ \E w \in Consumers : process_job_raise(w)
    \/ \E w \in Consumers : process_job_finish(w)

(* The deferred path: payment confirmations, the executor, the admin route *)
DeferredNext ==
    \/ \E id \in JobIdSpace \cup {NoSuchId} : stripe_webhook(id)
    \/ \E id \in JobIdSpace \cup {NoSuchId} : execute_paypal_payment(id)
    \/ \E p \in PoolWorkers : executor_run(p)
    \/ \E a \in Admins, id \in JobIdSpace \cup {NoSuchId} :
            admin_regenerate_3d(a, id)
    \/ \E t \in PoolWorkers \cup Admins : generate_mesh_load(t)
    \/ \E t \in PoolWorkers \cup Admins : generate_mesh_submit(t)
    \/ \E t \in PoolWorkers \cup Admins : generate_mesh_poll(t)
    \/ \E t \in PoolWorkers \cup Admins : generate_mesh_raise(t)
    \/ \E t \in PoolWorkers \cup Admins : generate_mesh_finish(t)

Next == PipelineNext \/ DeferredNext

Spec == Init /\ [][Next]_vars

(* One life of the process with a scheduler that lets every thread run:
   the pipeline alone, several submissions, one start_worker call. *)
FairInit ==
    InitState([jobs |-> MaxJobs, triggers |-> 0, starts |-> 1, restarts |-> 0,
               orders |-> {}])

FairSpec == FairInit /\ [][PipelineNext]_vars /\ WF_vars(PipelineNext)

(* The same with the process stopped and started again. *)
RestartInit ==
    InitState([jobs |-> MaxJobs, triggers |-> 0, starts |-> 1,
               restarts |-> MaxRestarts, orders |-> {}])

RestartNext == PipelineNext \/ Restart

RestartSpec == RestartInit /\ [][RestartNext]_vars /\ WF_vars(PipelineNext)

(* process_job on a row that is already in the store when the process
   starts, its id on the queue: the id prefix and the concept_only column
   are drawn independently, as for a row written before the column
   existed. *)
FlagInit ==
    \E id \in Prefixes \X {1}, flag \in BOOLEAN :
        /\ clock = 0
        /\ jobs = [i \in {id} |-> JobModel(flag)]
        /\ job_queue = <<id>>
        /\ pending_put = {}
        /\ worker_thread = 0
        /\ starters = [s \in 1..NumStarters |-> "idle"]
        /\ th = [t \in Threads |-> [Idle EXCEPT !.pc =
                    IF t \in Consumers THEN "unstarted" ELSE "idle"]]
        /\ executor_queue = <<>>
        /\ image_calls = [i \in JobIdSpace |-> 0]
        /\ mesh_calls = [i \in JobIdSpace |-> 0]
        /\ proc_ret = [i \in JobIdSpace |-> "none"]
        /\ gen_ret = [i \in JobIdSpace \cup {NoSuchId} |->
                        [ret |-> "none", st0 |-> "none"]]
        /\ after_failure = {}
        /\ budget = [jobs |-> 1, triggers |-> 0, starts |-> 1, restarts |-> 0,
                     orders |-> {}]
        /\ reply = NoReply
        /\ chain = [i \in JobIdSpace \cup {NoSuchId} |-> NoChain]
        /\ task_options = [i \in JobIdSpace |-> NoOptions]

FlagSpec == FlagInit /\ [][PipelineNext]_vars

----------------------------------------------------------------------------
(* Properties *)

Stepped(t) == th'[t] # th[t]

GenThreads == PoolWorkers \cup Admins

StatusOf(id) == get_job(jobs, id).status

(* C1: the status of a job only moves along PENDING -> GENERATING_IMAGE ->
   {CONCEPT_READY | CONVERTING_3D} -> COMPLETED, to FAILED only from a
   non-terminal status, backwards only from CONCEPT_READY to CONVERTING_3D
   and only by generate_mesh_for_job, and never out of COMPLETED or FAILED. *)
LegalTransitions ==
    { <<PENDING, GENERATING_IMAGE>>, <<GENERATING_IMAGE, CONCEPT_READY>>,
      <<GENERATING_IMAGE, CONVERTING_3D>>, <<CONCEPT_READY, CONVERTING_3D>>,
      <<CONVERTING_3D, COMPLETED>> }
    \cup ({PENDING, GENERATING_IMAGE, CONCEPT_READY, CONVERTING_3D} \X {FAILED})

C1_StatusPath ==
    [][\A id \in DOMAIN jobs :
        jobs'[id].status # jobs[id].status =>
            /\ <<jobs[id].status, jobs'[id].status>> \in LegalTransitions
            /\ jobs[id].status = CONCEPT_READY /\ jobs'[id].status = CONVERTING_3D
                => \E t \in GenThreads :
                     th[t].pc = "g_load" /\ th[t].job = id /\ Stepped(t)]_vars

(* C2: when process_job ends successfully on a concept-only job, the job is
   CONCEPT_READY with progress 100, an image path and no mesh path, and no
   mesh task was ever created for it. *)
C2_ConceptHalts ==
    [][\A w \in Consumers :
        LET id == th[w].job IN
        (InProcessJob(w) /\ th[w].concept_only /\ Stepped(w)
            /\ proc_ret'[id] = "True")
        => /\ jobs'[id].status = CONCEPT_READY
           /\ jobs'[id].progress = 100
           /\ jobs'[id].image_path # 0
           /\ jobs'[id].mesh_path = 0
           /\ mesh_calls'[id] = 0]_vars

C2_Witness ==
    \E id \in DOMAIN jobs :
        /\ id[1] = "concept" /\ proc_ret[id] = "True"
        /\ jobs[id].status = CONCEPT_READY /\ jobs[id].image_path # 0

(* C3: a generate_mesh_for_job call that loads its job in CONCEPT_READY
   writes CONVERTING_3D, then writes no other status until, the mesh backend
   having succeeded, it writes COMPLETED with a mesh path; no step of the
   call generates an image or changes the stored image path. *)
C3_DeferredResumes ==
    [][\A t \in GenThreads :
        LET id == th[t].job IN
        (InGenerateMesh(t) /\ Stepped(t) /\ id \in DOMAIN jobs) =>
          /\ image_calls' = image_calls
          /\ jobs'[id].image_path = jobs[id].image_path
          /\ (th[t].pc = "g_load" /\ jobs[id].status = CONCEPT_READY)
                => /\ jobs'[id].status = CONVERTING_3D
                   /\ th'[t].pc = "g_submit"
          /\ (th[t].st0 = CONCEPT_READY /\ th'[t].pc \in {"g_poll", "g_finish",
                                                        "g_raise"})
                => jobs'[id].status = jobs[id].status
          /\ (th[t].st0 = CONCEPT_READY /\ th[t].pc = "g_finish"
                /\ gen_ret'[id].ret = "True")
                => /\ jobs'[id].status = COMPLETED
                   /\ jobs'[id].mesh_path # 0]_vars

C3_Witness ==
    \E id \in DOMAIN jobs :
        /\ gen_ret[id] = [ret |-> "True", st0 |-> CONCEPT_READY]
        /\ jobs[id].status = COMPLETED
        /\ jobs[id].mesh_path # 0
        /\ image_calls[id] = 1

(* C4: a process_job call that ends otherwise than by returning True ends
   by returning False to the loop, which goes on to the next queue item; the
   job is then FAILED and its error_message is the message of the exception
   raised at the stage the call had reached. *)
RaisedAt(w) ==
    CASE th[w].pc = "p_image" -> ImageErrors
      [] th[w].pc = "p_submit" -> SubmitErrors
      [] th[w].pc = "p_poll" -> PollErrors
      [] th[w].pc = "p_raise" -> {th[w].exc}
      [] th[w].pc = "p_finish" -> RenameErrors \cup FormatMsgs
      [] OTHER -> {}

C4_FailureRecorded ==
    [][\A w \in Consumers :
        LET id == th[w].job IN
        (InProcessJob(w) /\ Stepped(w) /\ ~InProcessJob(w)'
            /\ id \in DOMAIN jobs /\ proc_ret'[id] # "True")
        => /\ proc_ret'[id] = "False"
           /\ th'[w].pc = "w_get"
           /\ jobs'[id].status = FAILED
           /\ jobs'[id].error_message \in RaisedAt(w)]_vars

C4_Witness ==
    \E id \in DOMAIN jobs, w \in Consumers :
        /\ proc_ret[id] = "False"
        /\ jobs[id].status = FAILED
        /\ jobs[id].error_message = TimeoutMsg
        /\ th[w].pc = "w_get"

(* A generate_mesh_for_job call of thread t ends in this step. *)
GenerateMeshEnds(t) == InGenerateMesh(t) /\ Stepped(t) /\ ~InGenerateMesh(t)'

ReturnedFalse(r) == r.ret \in {"False", "no_image", "not_found"}

(* C5, as claimed: when generate_mesh_for_job returns True the job is
   COMPLETED, and when it returns False for an existing job the job is
   FAILED with a non-empty error_message. *)
C5_OutcomeFaithful ==
    [][\A t \in GenThreads :
        LET id == th[t].job IN
        GenerateMeshEnds(t) =>
          /\ gen_ret'[id].ret = "True" => jobs'[id].status = COMPLETED
          /\ (ReturnedFalse(gen_ret'[id]) /\ id \in DOMAIN jobs)
                => /\ jobs'[id].status = FAILED
                   /\ jobs'[id].error_message \notin {Null, EmptyText}]_vars

(* C5, amended: when generate_mesh_for_job returns True the job is
   COMPLETED; when it returns False after having found the job's image_path
   set the job is FAILED and error_message holds the text of the exception,
   which may be empty; when it returns False because image_path is unset
   the job record is left as it was. *)
C5_OutcomeFaithfulWithImage ==
    [][\A t \in GenThreads :
        LET id == th[t].job IN
        GenerateMeshEnds(t) =>
          /\ gen_ret'[id].ret = "True" => jobs'[id].status = COMPLETED
          /\ (ReturnedFalse(gen_ret'[id]) /\ id \in DOMAIN jobs
                /\ has_image(jobs[id]))
                => /\ jobs'[id].status = FAILED
                   /\ jobs'[id].error_message # Null
          /\ (ReturnedFalse(gen_ret'[id]) /\ id \in DOMAIN jobs
                /\ ~has_image(jobs[id]))
                => jobs' = jobs]_vars

C5_Witness ==
    \E id \in DOMAIN jobs, t \in GenThreads :
        /\ gen_ret[id].ret = "False"
        /\ jobs[id].status = FAILED
        /\ jobs[id].error_message = TaskFailedMsg
        /\ th[t].pc = "idle"

(* C6: generate_mesh_for_job on a job without image_path returns False in
   its first step: no mesh task is created and the job record, its status
   included, is untouched. *)
C6_NoImageFailsFast ==
    [][\A t \in GenThreads :
        LET id == th[t].job IN
        (th[t].pc = "g_load" /\ Stepped(t) /\ id \in DOMAIN jobs
            /\ jobs[id].image_path = 0)
        => /\ gen_ret'[id].ret = "no_image"
           /\ th'[t].pc = "idle"
           /\ jobs' = jobs
           /\ mesh_calls' = mesh_calls]_vars

C6_Witness ==
    \E id \in DOMAIN jobs :
        /\ gen_ret[id].ret = "no_image"
        /\ gen_ret[id].st0 \in {PENDING, GENERATING_IMAGE}
        /\ jobs[id].image_path = 0
        /\ mesh_calls[id] = 0

(* C7: a job put on the queue after some process_job call has failed is
   still dequeued by the consumer, and process_job runs to its end for it. *)
C7_LoopSurvives ==
    \A id \in JobIdSpace :
        (id \in after_failure) ~> (proc_ret[id] # "none")

C7_Witness ==
    \E a \in DOMAIN jobs, b \in after_failure :
        /\ proc_ret[a] = "False"
        /\ jobs[a].status = FAILED
        /\ jobs[a].error_message \in SubmitErrors
        /\ proc_ret[b] = "True"
        /\ jobs[b].status \in {COMPLETED, CONCEPT_READY}

(* C8: a job that is PENDING, GENERATING_IMAGE or CONVERTING_3D eventually
   is CONCEPT_READY, COMPLETED or FAILED; a job from submit_job eventually
   is COMPLETED or FAILED, a job from submit_concept_job eventually is
   CONCEPT_READY or FAILED. *)
C8_EveryJobEnds ==
    \A id \in JobIdSpace :
        /\ (StatusOf(id) \in {PENDING, GENERATING_IMAGE, CONVERTING_3D})
              ~> (StatusOf(id) \in {CONCEPT_READY, COMPLETED, FAILED})
        /\ (id[1] = "job" /\ StatusOf(id) = PENDING)
              ~> (StatusOf(id) \in {COMPLETED, FAILED})
        /\ (id[1] = "concept" /\ StatusOf(id) = PENDING)
              ~> (StatusOf(id) \in {CONCEPT_READY, FAILED})

(* C9: at most one consumer thread is alive, and at most one thread is
   inside process_job. *)
C9_SingleConsumer ==
    /\ Cardinality({w \in Consumers : th[w].pc # "unstarted"}) <= 1
    /\ Cardinality({w \in Consumers : InProcessJob(w)}) <= 1

(* C10: for every job id at most one thread is inside process_job or
   generate_mesh_for_job for that id. *)
C10_OneThreadPerJob ==
    \A id \in JobIdSpace :
        Cardinality({t \in Threads :
            (InProcessJob(t) \/ InGenerateMesh(t)) /\ th[t].job = id}) <= 1

----------------------------------------------------------------------------
(* The job store as the request threads use it *)

MaxClock == 2

(* datetime.isoformat() *)
isoformat(t) == <<"isoformat", t>>

(* JobModel.to_dict: the id and the columns, the two datetimes as text *)
to_dict(id, job) ==
    [f \in JobColumns \cup {"id"} |->
        CASE f = "id" -> id
          [] f \in {"created_at", "updated_at"} -> isoformat(job[f])
          [] OTHER -> job[f]]

(* A read whose session writes updated_at back *)
get_job_status_touching(js, id) ==
    LET job == get_job(js, id) IN
    [ret |-> IF job = None THEN None ELSE to_dict(id, job),
     db |-> update_job(js, id, <<>>)]

(* RealJobService.get_job_status: what it returns, and the table after its
   session has committed (the session holds no pending change). *)
get_job_status(js, id) ==
    LET job == get_job(js, id) IN
    [ret |-> IF job = None THEN None ELSE to_dict(id, job),
     db |-> js]

(* GET /api/jobs/<job_id> *)
get_job_route(id) ==
    /\ LET r == get_job_status(jobs, id) IN
        /\ reply' = [op |-> "get_job_status", id |-> id, kw |-> <<>>,
                     at |-> clock, ret |-> r.ret]
        /\ jobs' = r.db
    /\ UNCHANGED <<job_queue, pending_put, worker_thread, starters, th,
                   executor_queue, image_calls, mesh_calls, proc_ret,
                   gen_ret, after_failure, budget, clock>>
    /\ UNCHANGED order_vars

(* The keyword arguments of the update_job calls of job_service.py *)
UpdateCalls ==
    { [status |-> GENERATING_IMAGE, progress |-> 20],
      [image_path |-> 1, image_url |-> image_url_of(1), progress |-> 100,
       status |-> CONCEPT_READY],
      [progress |-> 64],
      [status |-> FAILED, error_message |-> "Failed to create task"],
      [mesh_path |-> 1, mesh_url |-> "glb", mesh_urls_json |-> {"glb", "obj"},
       progress |-> 100, status |-> COMPLETED] }

(* "with get_db_session() as db: update_job(db, job_id, **kw)" *)
update_job_session(id, kw) ==
    /\ jobs' = update_job(jobs, id, kw)
    /\ reply' = [op |-> "update_job", id |-> id, kw |-> kw, at |-> clock,
                 ret |-> get_job(jobs', id)]
    /\ UNCHANGED <<job_queue, pending_put, worker_thread, starters, th,
                   executor_queue, image_calls, mesh_calls, proc_ret,
                   gen_ret, after_failure, budget, clock>>
    /\ UNCHANGED order_vars

(* Time passes between two calls. *)
utcnow_advances ==
    /\ clock < MaxClock
    /\ clock' = clock + 1
    /\ UNCHANGED <<jobs, job_queue, pending_put, worker_thread, starters, th,
                   executor_queue, image_calls, mesh_calls, proc_ret,
                   gen_ret, after_failure, budget, reply>>
    /\ UNCHANGED order_vars

StoreInit ==
    InitState([jobs |-> 1, triggers |-> 0, starts |-> 0, restarts |-> 0,
               orders |-> {}])

(* The ids the request threads ask for: the id of the one job of StoreInit,
   whichever submission created it, and an id that no submission made *)
StoreIds == (Prefixes \X {1}) \cup {NoSuchId}

StoreNext ==
    \/ submit_job
    \/ submit_concept_job
    \/ \E id \in StoreIds : get_job_route(id)
    \/ \E id \in StoreIds, kw \in UpdateCalls : update_job_session(id, kw)
    \/ utcnow_advances

StoreSpec == StoreInit /\ [][StoreNext]_vars

----------------------------------------------------------------------------
(* Deferred generation under load: one job, more generation requests than
   the pool has threads, each call followed up to the point where it is in
   flight (past its load step).  Every behaviour of PoolSpec is the start of
   a behaviour of Spec with the same requests. *)
PoolInit ==
    InitState([jobs |-> 1, triggers |-> PoolSize + NumAdmins, starts |-> 1,
               restarts |-> 0, orders |-> DefaultOrders])

PoolNext ==
    \/ submit_job
    \/ submit_concept_job
    \/ \E id \in JobIdSpace : job_queue_put(id)
    \/ \E s \in 1..NumStarters : start_worker_check(s)
    \/ \E s \in 1..NumStarters : start_worker_start(s)
    \/ \E w \in Consumers : worker_loop_get(w)
    \/ \E w \in Consumers : process_job_load(w)
    \/ \E w \in Consumers : process_job_image(w)
    \/ \E id \in JobIdSpace \cup {NoSuchId} : stripe_webhook(id)
    \/ \E id \in JobIdSpace \cup {NoSuchId} : execute_paypal_payment(id)
    \/ \E p \in PoolWorkers : executor_run(p)
    \/ \E a \in Admins, id \in JobIdSpace \cup {NoSuchId} :
            admin_regenerate_3d(a, id)
    \/ \E t \in PoolWorkers \cup Admins : generate_mesh_load(t)

PoolSpec == PoolInit /\ [][PoolNext]_vars

(* The threads that are inside generate_mesh_for_job *)
InFlight == {t \in Threads : InGenerateMesh(t)}

(* C11: at most PoolSize executions of generate_mesh_for_job are in flight
   at any time. *)
C11_PoolCapsInFlight == Cardinality(InFlight) <= PoolSize

(* The progress value that the call of thread t wrote last, from where the
   call stands and the last backend percentage it reported. *)
LastWritten(t) ==
    LET prefix == IF InProcessJob(t) THEN "p" ELSE "g"
        stage == SubSeq(th[t].pc, 3, Len(th[t].pc)) IN
    CASE stage = "load" -> 0
      [] stage = "image" -> 20
      [] stage = "convert" -> 40
      [] stage = "submit" -> 50
      [] th[t].last_progress = -1 -> 50
      [] OTHER -> on_progress(prefix, th[t].last_progress)

(* C12: within one process_job or generate_mesh_for_job call, a progress
   value written to the job record is never below the value the same call
   wrote before. *)
C12_ProgressMonotone ==
    [][\A t \in Threads :
        LET id == th[t].job IN
        ((InProcessJob(t) \/ InGenerateMesh(t)) /\ Stepped(t)
            /\ id \in DOMAIN jobs /\ jobs'[id].progress # jobs[id].progress)
        => jobs'[id].progress >= LastWritten(t)]_vars

(* The step is a get_job_status call for id that has returned. *)
Read(id) ==
    /\ reply' # reply
    /\ reply'.op = "get_job_status"
    /\ reply'.id = id

(* The step is an update_job call for id with keyword arguments kw. *)
Updated(id, kw) ==
    /\ reply' # reply
    /\ reply'.op = "update_job"
    /\ reply'.id = id
    /\ reply'.kw = kw

AnyId == JobIdSpace \cup {NoSuchId}

(* C13: get_job_status on an id without a record returns None and leaves
   the table, the set of its records included, as it was. *)
C13_UnknownIdNotFound ==
    [][\A id \in AnyId \ DOMAIN jobs :
        /\ get_job_status(jobs, id).ret = None
        /\ get_job_status(jobs, id).db = jobs
        /\ Read(id) => /\ reply'.ret = None
                       /\ jobs' = jobs]_vars

C13_Witness ==
    /\ reply.op = "get_job_status"
    /\ reply.id \in JobIdSpace \ DOMAIN jobs
    /\ reply.ret = None
    /\ DOMAIN jobs # {}

(* C14: a get_job_status call changes no field of any record, updated_at
   included, and a second call for the same id on the table it left
   returns the same data. *)
C14_PureRead ==
    [][\A id \in AnyId :
        LET r1 == get_job_status(jobs, id)
            r2 == get_job_status(r1.db, id) IN
        /\ r1.db = jobs
        /\ r2 = r1
        /\ Read(id) => /\ jobs' = jobs
                       /\ reply'.ret = r1.ret
                       /\ get_job_status(jobs', id).ret = reply'.ret]_vars

C14_Witness ==
    /\ reply.op = "get_job_status"
    /\ reply.id \in DOMAIN jobs
    /\ reply.ret = to_dict(reply.id, jobs[reply.id])
    /\ jobs[reply.id].updated_at > jobs[reply.id].created_at
    /\ jobs[reply.id].updated_at < clock

(* C15, as claimed: update_job on an existing job sets every field named in
   the call, leaves the other fields as they were and sets updated_at to
   the time of the call; on an unknown id it returns None and the table is
   as it was. *)
C15_UpdateSetsNamed ==
    [][\A id \in AnyId, kw \in UpdateCalls :
        Updated(id, kw) =>
            IF id \in DOMAIN jobs
            THEN /\ \A f \in DOMAIN kw :
                        f \in DOMAIN jobs'[id] /\ jobs'[id][f] = kw[f]
                 /\ \A f \in DOMAIN jobs[id] \ (DOMAIN kw \cup {"updated_at"}) :
                        jobs'[id][f] = jobs[id][f]
                 /\ jobs'[id].updated_at = clock
                 /\ \A i \in DOMAIN jobs \ {id} : jobs'[i] = jobs[i]
                 /\ DOMAIN jobs' = DOMAIN jobs
            ELSE reply'.ret = None /\ jobs' = jobs]_vars

(* C15, amended: update_job on an existing job sets every named field that
   is an attribute of JobModel and ignores the other names, leaves the
   other fields as they were and sets updated_at to the time of the call;
   on an unknown id it returns None and the table is as it was. *)
C15_UpdateMergesColumns ==
    [][\A id \in AnyId, kw \in UpdateCalls :
        Updated(id, kw) =>
            IF id \in DOMAIN jobs
            THEN /\ DOMAIN jobs'[id] = JobColumns
                 /\ \A f \in DOMAIN kw \cap JobColumns : jobs'[id][f] = kw[f]
                 /\ \A f \in JobColumns \ (DOMAIN kw \cup {"updated_at"}) :
                        jobs'[id][f] = jobs[id][f]
                 /\ jobs'[id].updated_at = clock
                 /\ reply'.ret = jobs'[id]
                 /\ \A i \in DOMAIN jobs \ {id} : jobs'[i] = jobs[i]
                 /\ DOMAIN jobs' = DOMAIN jobs
            ELSE reply'.ret = None /\ jobs' = jobs]_vars

C15_Witness ==
    /\ reply.op = "update_job"
    /\ reply.id \in DOMAIN jobs
    /\ "mesh_urls_json" \in DOMAIN reply.kw
    /\ jobs[reply.id].status = COMPLETED
    /\ jobs[reply.id].image_path = 1
    /\ jobs[reply.id].updated_at > jobs[reply.id].created_at

(* Thread t ends its mesh stage in this step. *)
MeshStageEnds(t) ==
    /\ th[t].pc \in {"p_finish", "g_finish"}
    /\ Stepped(t)
    /\ th[t].job \in DOMAIN jobs

(* C16: when a mesh generation ends with the job COMPLETED, the record read
   back holds the map of formats to URLs of the backend, glb included. *)
C16_FormatMapStored ==
    [][\A t \in Threads :
        LET id == th[t].job IN
        (MeshStageEnds(t) /\ jobs'[id].status = COMPLETED) =>
            LET d == get_job_status(jobs', id).ret IN
            /\ "mesh_urls_json" \in DOMAIN d
            /\ d.mesh_urls_json \in ModelUrls
            /\ "glb" \in d.mesh_urls_json]_vars

(* The messages of a download that found other formats, but not glb *)
OtherFormatMsgs ==
    {FormatMsg(urls) : urls \in {u \in ModelUrls : u # {} /\ "glb" \notin u}}

(* C17: a mesh stage whose backend returned some format, but not glb, does
   not end with the job FAILED for the missing format. *)
C17_FallbackFormat ==
    [][\A t \in Threads :
        LET id == th[t].job IN
        MeshStageEnds(t) =>
            ~(/\ jobs'[id].status = FAILED
              /\ jobs'[id].error_message \in OtherFormatMsgs)]_vars

(* C18: the polling loop of process_job always ends, so a job does not stay
   CONVERTING_3D; a round of the loop goes on polling, returns, fails with
   the backend's FAILED / EXPIRED text, or fails with the timeout text,
   which is none of the backend failure texts; after a timeout the job is
   FAILED with the timeout text as error_message. *)
C18_PollingEnds ==
    /\ \A w \in Consumers : (th[w].pc = "p_poll") ~> (th[w].pc # "p_poll")
    /\ \A id \in JobIdSpace :
            (StatusOf(id) = CONVERTING_3D)
                ~> (StatusOf(id) \in {COMPLETED, FAILED})
    /\ [][\A w \in Consumers :
            LET id == th[w].job IN
            /\ (th[w].pc = "p_poll" /\ Stepped(w)) =>
                  \/ th'[w].pc = "p_poll" /\ th'[w].polls = th[w].polls + 1
                                          /\ th'[w].polls < MaxPolls
                  \/ th'[w].pc = "p_finish"
                  \/ th'[w].pc = "p_raise"
                        /\ th'[w].exc \in {TaskFailedMsg, TaskExpiredMsg,
                                           TimeoutMsg}
                  \/ th'[w].pc = "w_get" /\ jobs'[id].status = FAILED
                        /\ jobs'[id].error_message \in PollErrors
            /\ (th[w].pc = "p_raise" /\ th[w].exc = TimeoutMsg /\ Stepped(w)) =>
                  /\ TimeoutMsg \notin {TaskFailedMsg, TaskExpiredMsg}
                  /\ jobs'[id].status = FAILED
                  /\ jobs'[id].error_message = TimeoutMsg
                  /\ proc_ret'[id] = "False"]_vars

C18_Witness ==
    \E id \in DOMAIN jobs, w \in Consumers :
        /\ id[1] = "job"
        /\ proc_ret[id] = "False"
        /\ jobs[id].status = FAILED
        /\ jobs[id].error_message = TimeoutMsg
        /\ jobs[id].progress = on_progress("p", 37)
        /\ mesh_calls[id] = 1
        /\ th[w].pc = "w_get"

(* C19: the image_path of a job is set exactly when an image generation
   for the job has succeeded; it is unset for a PENDING job and for a job
   that failed in image generation. *)
C19_ImagePathIffGenerated ==
    \A id \in DOMAIN jobs :
        /\ (jobs[id].image_path # 0) <=> (image_calls[id] >= 1)
        /\ jobs[id].status = PENDING => jobs[id].image_path = 0
        /\ (jobs[id].status = FAILED /\ jobs[id].error_message \in ImageErrors)
              => jobs[id].image_path = 0

C19_Witness ==
    \E a, b \in DOMAIN jobs :
        /\ jobs[a].status = FAILED
        /\ jobs[a].error_message \in ImageErrors
        /\ jobs[a].image_path = 0
        /\ jobs[b].image_path # 0
        /\ image_calls[b] = 1

(* C20: the mesh_path of a job is set exactly when its status is
   COMPLETED. *)
C20_MeshPathIffCompleted ==
    \A id \in DOMAIN jobs :
        (jobs[id].mesh_path # 0) <=> (jobs[id].status = COMPLETED)

(* ---------------------------------------------------------------------- *)
(* C21: in every payment-triggered task (Stripe webhook, PayPal execute),
   when generate_mesh_for_job returned success both the fulfilment
   submission and the model-ready notification were attempted, and when it
   returned failure neither was. *)
PaymentProviders == {"stripe", "paypal"}

C21_PaymentTaskChains ==
    \A id \in JobIdSpace :
        chain[id].by \in PaymentProviders
        => chain[id].done = IF chain[id].success
                            THEN {"email", "shapeways"} ELSE {}

(* ---------------------------------------------------------------------- *)
(* C22: the consumer calls process_job on job ids in the order in which
   they were put on the primary queue: the queue only grows at its back and
   shrinks at its front, the consumer takes the front id, and when it takes
   an id every id put on the queue before it has been processed to the end
   of process_job. *)
Queued == {job_queue[k] : k \in DOMAIN job_queue}

(* The ids that have been put on the queue and taken off it. *)
Dequeued == (DOMAIN jobs \ pending_put) \ Queued

C22_QueueOrder ==
    [][ /\ \/ job_queue' = job_queue
           \/ \E id \in JobIdSpace : job_queue' = Append(job_queue, id)
           \/ job_queue # <<>> /\ job_queue' = Tail(job_queue)
        /\ \A w \in Consumers :
             (th[w].pc = "w_get" /\ th'[w].pc = "p_load")
             => /\ job_queue # <<>>
                /\ th'[w].job = Head(job_queue)
                /\ \A a \in Dequeued :
                     /\ proc_ret[a] # "none"
                     /\ \A v \in Consumers :
                          ~(InProcessJob(v) /\ th[v].job = a)
      ]_vars

(* The consumer takes an id after another id was processed to the end. *)
C22_Witness ==
    \E w \in Consumers :
        /\ th[w].pc = "p_load"
        /\ \E a \in Dequeued : a # th[w].job /\ proc_ret[a] # "none"

(* ---------------------------------------------------------------------- *)
(* C23: in process_job and in generate_mesh_for_job alike, a backend
   progress p is stored as job progress 50 + floor(0.4 * p), a value in
   50..90. *)
Pollers == {"p_poll", "g_poll"}

C23_ProgressScaled ==
    [][ \A t \in Threads :
          (/\ th[t].pc \in Pollers
           /\ th'[t].last_progress \in BackendProgress
           /\ th'[t].last_progress # th[t].last_progress
           /\ th[t].job \in DOMAIN jobs)
          => /\ jobs'[th[t].job].progress
                  = 50 + (4 * th'[t].last_progress) \div 10
             /\ jobs'[th[t].job].progress \in 50..90
      ]_vars

(* ---------------------------------------------------------------------- *)
(* C24: process_job treats a job as concept-only exactly when the stored
   concept_only flag is true, whatever the prefix of its id: after a
   successful image generation the pass halts at CONCEPT_READY if the flag
   is set and goes on to mesh generation if it is not. *)
C24_FlagDecides ==
    [][ \A w \in Consumers :
          (/\ th[w].pc = "p_image"
           /\ Stepped(w)
           /\ image_calls' # image_calls
           /\ th[w].job \in DOMAIN jobs)
          => /\ (jobs'[th[w].job].status = CONCEPT_READY)
                    = jobs[th[w].job].concept_only
             /\ (th'[w].pc = "p_convert") = ~jobs[th[w].job].concept_only
      ]_vars

(* ---------------------------------------------------------------------- *)
(* C25: the mesh task that generate_mesh_for_job creates carries the
   options derived from the call's mesh_style and material_key: the model
   type and polycount of the style, PBR exactly when the material supports
   full colour. *)
C25_OptionsSubmitted ==
    [][ \A t \in PoolWorkers \cup Admins :
          (th[t].pc = "g_submit" /\ th'[t].pc = "g_poll")
          => task_options'[th[t].job]
                = from_user_selection(th[t].order.mesh_style,
                                      th[t].order.material)
      ]_vars

(* ---------------------------------------------------------------------- *)
(* C26: in every reachable state a job's error_message is set only if the
   job's status is FAILED. *)
C26_ErrorOnlyWhenFailed ==
    \A id \in DOMAIN jobs :
        jobs[id].error_message # Null => jobs[id].status = FAILED

(* ---------------------------------------------------------------------- *)
(* C27: no operation changes a job's description or concept_only flag after
   creation, and once image_path and image_url are set no later operation
   changes them. *)
C27_CreationFieldsKept ==
    [][ \A id \in DOMAIN jobs :
          /\ id \in DOMAIN jobs'
          /\ jobs'[id].description = jobs[id].description
          /\ jobs'[id].concept_only = jobs[id].concept_only
          /\ jobs[id].image_path # 0
                => jobs'[id].image_path = jobs[id].image_path
          /\ jobs[id].image_url # NoUrl
                => jobs'[id].image_url = jobs[id].image_url
      ]_vars

(* generate_mesh_for_job has completed a job whose image was generated by
   process_job, after more than one mesh task was created for it. *)
C27_Witness ==
    \E id \in DOMAIN jobs :
        /\ jobs[id].image_url = image_url_of(1)
        /\ jobs[id].status = COMPLETED
        /\ gen_ret[id].ret = "True"
        /\ mesh_calls[id] > 1

(* ---------------------------------------------------------------------- *)
(* C28: a payment confirmation hands generate_mesh_for_job to the pool only
   for a job whose status is CONCEPT_READY at that moment. *)
C28_DispatchOnlyConceptReady ==
    [][ Len(executor_queue') > Len(executor_queue)
        => LET id == executor_queue'[Len(executor_queue')].job IN
            /\ id \in DOMAIN jobs
            /\ jobs[id].status = CONCEPT_READY
      ]_vars

(* ---------------------------------------------------------------------- *)
(* C29: whenever a job's status is COMPLETED its progress is 100 and its
   mesh_path is set, under every interleaving of the consumer and the
   deferred-generation workers. *)
C29_CompletedIsWhole ==
    \A id \in DOMAIN jobs :
        jobs[id].status = COMPLETED
        => jobs[id].progress = 100 /\ jobs[id].mesh_path # 0

(* ---------------------------------------------------------------------- *)
(* C30: submit_job and submit_concept_job create the job record (status
   PENDING, progress 0, no image_path) before they put the id on the
   primary queue, so every id the consumer takes has a record, and a
   submission whose record creation fails puts nothing on the queue. *)
C30_RecordBeforePut ==
    [][ /\ \A id \in pending_put' \ pending_put :
             /\ id \notin DOMAIN jobs
             /\ id \in DOMAIN jobs'
             /\ jobs'[id].status = PENDING
             /\ jobs'[id].progress = 0
             /\ jobs'[id].image_path = 0
        /\ Len(job_queue') > Len(job_queue)
             => LET id == job_queue'[Len(job_queue')] IN
                 id \in pending_put /\ id \in DOMAIN jobs
        /\ \A w \in Consumers :
             (th[w].pc = "w_get" /\ th'[w].pc = "p_load")
             => th'[w].job \in DOMAIN jobs
        /\ (budget'.jobs < budget.jobs /\ DOMAIN jobs' = DOMAIN jobs)
             => pending_put' = pending_put /\ job_queue' = job_queue
      ]_vars

(* In a run of MaxJobs submissions one failed to create its record, nothing
   is waiting, and the consumer has processed a job that was created. *)
C30_Witness ==
    /\ budget.orders = {}
    /\ budget.jobs = 0
    /\ Cardinality(DOMAIN jobs) < MaxJobs
    /\ pending_put = {}
    /\ job_queue = <<>>
    /\ \E id \in DOMAIN jobs : proc_ret[id] # "none"

====
